---- MODULE Spec2Model ----
(***************************************************************************)
(* Caption layout engine (utils/layout.ts, calculateTextLayout) and scene  *)
(* compositor (utils/videoGenerator.ts, renderVideo) of ReelSmith AI.      *)
(*                                                                         *)
(* Text is a sequence of one-character strings.  JavaScript numbers that   *)
(* come out of a division (the start/end fractions, the frame progress,    *)
(* the x position) are exact rationals <<numerator, denominator>> in       *)
(* lowest terms.  Wall-clock time is counted in whole milliseconds, the    *)
(* resolution of Date.now() and of the timeout of setTimeout.              *)
(***************************************************************************)
EXTENDS Integers, Sequences, FiniteSets, TLC

VARIABLES
    \* ---- the platform the code runs on
    measure,        \* ctx.measureText: pixel width of a letter, a space, a punctuation mark
    supported,      \* the identifiers for which MediaRecorder.isTypeSupported is true
    ctxOk,          \* canvas.getContext('2d') returns a context
    \* ---- calculateTextLayout / drawCaptions applied on their own
    text,           \* argument text
    maxWidth,       \* argument maxWidth
    layout,         \* the TextLayout returned (NoLayout before the call)
    progress,       \* the fraction drawCaptions was last called with
    drawn,          \* the words drawCaptions last drew, with their highlight
    \* ---- renderVideo
    segments,       \* argument segments
    showCaptions,   \* options.showCaptions
    format,         \* options.format
    pc,             \* position of renderVideo
    mimeType,       \* const mimeType
    recorder,       \* mediaRecorder.state
    audioContext,   \* "none", "running" or "closed"
    layoutCache,    \* Map segment id -> TextLayout (index -> layout, NoLayout when absent)
    images,         \* per image promise: "unset", "pending", "img" or "null"
    i,              \* scene loop index (1-based)
    f,              \* frame loop index
    now,            \* wall clock, ms
    frameStart,     \* const frameStart of the frame being drawn
    timerAt,        \* earliest time the pending setTimeout fires
    sceneClock,     \* per scene: when its audio started, its first and last frame
    log,            \* what the render did, in order
    settled         \* outcome of the returned promise

VARIABLES
    \* ---- App.tsx: handleStartGeneration and handleUpdateScene
    step,           \* const [step, setStep]
    project,        \* project.segments of const [project, setProject]
    snapshot,       \* project.segments as the running handleStartGeneration closed over it
    queue,          \* const queue
    finalSegments,  \* const finalSegments
    completed,      \* let completed
    workers,        \* per processNext chain: where it stands, its segment, its two requests
    gen,            \* position of handleStartGeneration
    renderCalls,    \* how often renderVideo was called
    rendered,       \* the list renderVideo was called with
    taken,          \* the ids shifted from the queue, in order
    pushed,         \* the ids pushed to finalSegments, in order
    edits           \* how often handleUpdateScene ran

appVars == << step, project, snapshot, queue, finalSegments, completed, workers, gen,
              renderCalls, rendered, taken, pushed, edits >>

vars == << measure, supported, ctxOk, text, maxWidth, layout, progress, drawn,
           segments, showCaptions, format, pc, mimeType, recorder, audioContext,
           layoutCache, images, i, f, now, frameStart, timerAt, sceneClock, log,
           settled, appVars >>

layoutVars == << text, maxWidth, layout, progress, drawn >>

renderVars == << segments, showCaptions, format, pc, mimeType, recorder,
                 audioContext, layoutCache, images, i, f, now, frameStart,
                 timerAt, sceneClock, log, settled >>

----------------------------------------------------------------------------
(* Bounds *)

MaxTextLen == 4        \* longest enumerated text, in characters
MaxLineWidth == 4      \* largest enumerated maxWidth of the stand-alone layout calls
MaxCharWidth == 2      \* largest enumerated width of one character
ProgressSteps == 10    \* drawCaptions is tried at k/ProgressSteps, k = 0..ProgressSteps
MaxScenes == 2         \* longest enumerated segment list
SlowDraw == 40         \* ms a slow frame takes to draw (a fast one takes 0)
MaxLate == 0           \* ms a timer may fire after its earliest time

----------------------------------------------------------------------------
(* Numbers *)

Max(a, b) == IF a >= b THEN a ELSE b

RECURSIVE GCD(_, _)
GCD(a, b) == IF b = 0 THEN a ELSE GCD(b, a % b)

\* JavaScript n / d for d > 0, as an exact rational in lowest terms
Frac(n, d) == LET g == GCD(n, d) IN << n \div g, d \div g >>

FracLT(a, b) == a[1] * b[2] < b[1] * a[2]
FracLE(a, b) == a[1] * b[2] <= b[1] * a[2]

Zero == << 0, 1 >>
One == << 1, 1 >>

RECURSIVE SumSeq(_)
SumSeq(s) == IF s = << >> THEN 0 ELSE Head(s) + SumSeq(Tail(s))

RECURSIVE Flatten(_)
Flatten(ss) == IF ss = << >> THEN << >> ELSE Head(ss) \o Flatten(Tail(ss))

----------------------------------------------------------------------------
(* Text *)

Space == " "
Alphabet == { "a", Space, ",", "." }

PauseMarks == { ",", ";" }
StopMarks == { ".", "!", "?" }

HelloWorld == << "H", "e", "l", "l", "o", ",", Space, "w", "o", "r", "l", "d", "!" >>

\* String.prototype.split(' ')
RECURSIVE SplitFrom(_, _, _, _)
SplitFrom(t, k, cur, acc) ==
    IF k > Len(t) THEN Append(acc, cur)
    ELSE IF t[k] = Space THEN SplitFrom(t, k + 1, << >>, Append(acc, cur))
    ELSE SplitFrom(t, k + 1, Append(cur, t[k]), acc)

Split(t) == SplitFrom(t, 1, << >>, << >>)

endsWith(t, marks) == Len(t) > 0 /\ t[Len(t)] \in marks

\* ctx.measureText(s).width
CharWidth(m, c) ==
    IF c = Space THEN m.space
    ELSE IF c \in PauseMarks \cup StopMarks THEN m.punct
    ELSE m.letter

RECURSIVE measureText(_, _)
measureText(m, s) ==
    IF s = << >> THEN 0 ELSE CharWidth(m, Head(s)) + measureText(m, Tail(s))

----------------------------------------------------------------------------
(* utils/layout.ts *)

NoLayout == [ lines |-> << >>, flattenedWords |-> << >>, totalChars |-> -1, fontSize |-> 0 ]

LineHeightScale == << 135, 100 >>

\* the test without the space that would precede the word
MustBreakNoSpace(currentLine, currentLineWidth, spaceWidth, wordWidth, maxW) ==
    Len(currentLine) > 0 /\ currentLineWidth + wordWidth > maxW

\* a current line that is pushed while it is still empty
MustBreakAlways(currentLine, currentLineWidth, spaceWidth, wordWidth, maxW) ==
    currentLineWidth + spaceWidth + wordWidth > maxW

\* the line-break test of "1. Build Lines"
MustBreak(currentLine, currentLineWidth, spaceWidth, wordWidth, maxW) ==
    Len(currentLine) > 0 /\ currentLineWidth + spaceWidth + wordWidth > maxW

\* the push of the last line after the forEach
ForgetLastLine(lines, currentLine) == lines

PushLastLine(lines, currentLine) ==
    IF Len(currentLine) > 0 THEN Append(lines, currentLine) ELSE lines

\* rawWords.forEach(wordStr => ...), from word k on
RECURSIVE BuildLinesFrom(_, _, _, _, _, _, _)
BuildLinesFrom(m, rawWords, k, maxW, lines, currentLine, currentLineWidth) ==
    IF k > Len(rawWords) THEN PushLastLine(lines, currentLine)
    ELSE LET wordStr == rawWords[k]
             wordWidth == measureText(m, wordStr)
             spaceWidth == measureText(m, << Space >>)
             brk == MustBreak(currentLine, currentLineWidth, spaceWidth, wordWidth, maxW)
             line0 == IF brk THEN << >> ELSE currentLine
             width0 == IF brk THEN 0 ELSE currentLineWidth
             line1 == Append(line0, [ text |-> wordStr, width |-> wordWidth, x |-> Zero,
                                      startTime |-> Zero, endTime |-> Zero, ref |-> 0 ])
             width1 == width0 + (IF Len(line1) > 1 THEN spaceWidth ELSE 0) + wordWidth
         IN  BuildLinesFrom(m, rawWords, k + 1, maxW,
                            IF brk THEN Append(lines, currentLine) ELSE lines,
                            line1, width1)

BuildLines(m, rawWords, maxW) == BuildLinesFrom(m, rawWords, 1, maxW, << >>, << >>, 0)

\* weight without the floor of 1 is the same here; weight without the bonus is not
getWeightNoBonus(t) == Max(1, Len(t))

getWeight(t) ==
    LET w0 == Len(t)
        w1 == IF endsWith(t, PauseMarks) THEN w0 + 4 ELSE w0
        w2 == IF endsWith(t, StopMarks) THEN w1 + 8 ELSE w1
    IN  Max(1, w2)

Weights(lines) == [ k \in 1..Len(Flatten(lines)) |-> getWeight(Flatten(lines)[k].text) ]

\* the total taken over the characters only, as the character-count timing did
TotalChars(lines) == SumSeq([ k \in 1..Len(Flatten(lines)) |-> Max(1, Len(Flatten(lines)[k].text)) ])

TotalWeight(lines) == SumSeq(Weights(lines))

\* line.reduce((acc, w, i) => acc + w.width + (i > 0 ? spaceWidth : 0), 0)
LineWidth(line, spaceWidth) ==
    SumSeq([ k \in 1..Len(line) |-> line[k].width + (IF k > 1 THEN spaceWidth ELSE 0) ])

\* line.map((w) => ...), from word k on.  x2 is twice currentX, cum is
\* cumulativeWeight, nextRef numbers the objects as they are created.
RECURSIVE PositionWordsFrom(_, _, _, _, _, _, _, _)
PositionWordsFrom(line, k, x2, spaceWidth, cum, totalWeight, nextRef, acc) ==
    IF k > Len(line) THEN [ words |-> acc, cum |-> cum, nextRef |-> nextRef ]
    ELSE LET w == line[k]
             weight == getWeight(w.text)
             wordWithMeta == [ w EXCEPT !.x = Frac(x2, 2),
                                        !.startTime = Frac(cum, totalWeight),
                                        !.endTime = Frac(cum + weight, totalWeight),
                                        !.ref = nextRef ]
         IN  PositionWordsFrom(line, k + 1, x2 + 2 * (w.width + spaceWidth), spaceWidth,
                               cum + weight, totalWeight, nextRef + 1,
                               Append(acc, wordWithMeta))

\* a copy of every word pushed instead of the word itself
PushFlattenedCopies(flattenedWords, words) ==
    flattenedWords \o [ k \in 1..Len(words) |-> [ words[k] EXCEPT !.ref = 0 - @ ] ]

\* flattenedWords.push(wordWithMeta), for the words of one line: the objects
\* pushed are the objects the line keeps
PushFlattened(flattenedWords, words) == flattenedWords \o words

\* the cumulative weight started again at 0 on every line
RECURSIVE PositionLinesFromPerLine(_, _, _, _, _, _, _, _, _, _)
PositionLinesFromPerLine(lines, idx, maxW, startY, fontSize, spaceWidth, cum, totalWeight, layoutLines, flattenedWords) ==
    IF idx > Len(lines) THEN [ lines |-> layoutLines, flattenedWords |-> flattenedWords ]
    ELSE LET line == lines[idx]
             lineWidth == LineWidth(line, spaceWidth)
             pos == PositionWordsFrom(line, 1, maxW - lineWidth, spaceWidth, 0, totalWeight,
                                      Len(flattenedWords) + 1, << >>)
             lineLayout == [ words |-> pos.words,
                             y |-> Frac(startY * LineHeightScale[2]
                                        + (idx - 1) * fontSize * LineHeightScale[1],
                                        LineHeightScale[2]),
                             width |-> lineWidth ]
         IN  PositionLinesFromPerLine(lines, idx + 1, maxW, startY, fontSize, spaceWidth,
                                      pos.cum, totalWeight, Append(layoutLines, lineLayout),
                                      flattenedWords \o pos.words)

\* lines.map((line, idx) => ...), from line idx on (idx is 1-based here)
RECURSIVE PositionLinesFrom(_, _, _, _, _, _, _, _, _, _)
PositionLinesFrom(lines, idx, maxW, startY, fontSize, spaceWidth, cum, totalWeight, layoutLines, flattenedWords) ==
    IF idx > Len(lines) THEN [ lines |-> layoutLines, flattenedWords |-> flattenedWords ]
    ELSE LET line == lines[idx]
             lineWidth == LineWidth(line, spaceWidth)
             pos == PositionWordsFrom(line, 1, maxW - lineWidth, spaceWidth, cum, totalWeight,
                                      Len(flattenedWords) + 1, << >>)
             lineLayout == [ words |-> pos.words,
                             y |-> Frac(startY * LineHeightScale[2]
                                        + (idx - 1) * fontSize * LineHeightScale[1],
                                        LineHeightScale[2]),
                             width |-> lineWidth ]
         IN  PositionLinesFrom(lines, idx + 1, maxW, startY, fontSize, spaceWidth, pos.cum,
                               totalWeight, Append(layoutLines, lineLayout),
                               PushFlattened(flattenedWords, pos.words))

calculateTextLayout(m, t, maxW, startY, fontSize) ==
    LET rawWords == Split(t)
        spaceWidth == measureText(m, << Space >>)
        lines == BuildLines(m, rawWords, maxW)
        totalWeight == TotalWeight(lines)
        positioned == PositionLinesFrom(lines, 1, maxW, startY, fontSize, spaceWidth, 0,
                                        totalWeight, << >>, << >>)
    IN  [ lines |-> positioned.lines,
          flattenedWords |-> positioned.flattenedWords,
          totalChars |-> Len(t),
          fontSize |-> fontSize ]

----------------------------------------------------------------------------
(* utils/videoGenerator.ts: drawCaptions *)

Contains(w, p) == FracLE(w.startTime, p) /\ FracLT(p, w.endTime)

\* the interval taken open at its start and closed at its end
FindActiveOpenStart(flattenedWords, p) ==
    LET hits == { k \in 1..Len(flattenedWords) :
                    FracLT(flattenedWords[k].startTime, p) /\ FracLE(p, flattenedWords[k].endTime) }
    IN  IF hits = {} THEN 0 ELSE CHOOSE k \in hits : \A j \in hits : k <= j

\* layout.flattenedWords.find(w => progress >= w.startTime && progress < w.endTime):
\* the index of the word found, 0 for undefined
FindActive(flattenedWords, p) ==
    LET hits == { k \in 1..Len(flattenedWords) : Contains(flattenedWords[k], p) }
    IN  IF hits = {} THEN 0 ELSE CHOOSE k \in hits : \A j \in hits : k <= j

\* drawCaptions without the test of showCaptions
drawCaptionsAlways(show, lay, p) ==
    IF lay = NoLayout THEN << >>
    ELSE LET found == FindActive(lay.flattenedWords, p)
             activeRef == IF found = 0 THEN 0 ELSE lay.flattenedWords[found].ref
             words == Flatten([ l \in 1..Len(lay.lines) |-> lay.lines[l].words ])
         IN  [ k \in 1..Len(words) |->
                 [ text |-> words[k].text, isActive |-> words[k].ref = activeRef ] ]

\* the fillText calls of one drawCaptions call, in order, each with isActive
drawCaptions(show, lay, p) ==
    IF ~show THEN << >>
    ELSE IF lay = NoLayout THEN << >>
    ELSE LET found == FindActive(lay.flattenedWords, p)
             activeRef == IF found = 0 THEN 0 ELSE lay.flattenedWords[found].ref
             words == Flatten([ l \in 1..Len(lay.lines) |-> lay.lines[l].words ])
         IN  [ k \in 1..Len(words) |->
                 [ text |-> words[k].text, isActive |-> words[k].ref = activeRef ] ]

----------------------------------------------------------------------------
(* utils/videoGenerator.ts: renderVideo *)

WIDTH == 720
HEIGHT == 1280
FPS == 30

CaptionMaxWidth == (WIDTH * 85) \div 100       \* WIDTH * 0.85
CaptionStartY == (HEIGHT * 75) \div 100        \* HEIGHT * 0.75
CaptionFontSize == (HEIGHT * 35) \div 1000     \* Math.floor(HEIGHT * 0.035)

Mp4Avc1 == "video/mp4;codecs=avc1"
Mp4 == "video/mp4"
WebmVp9 == "video/webm;codecs=vp9"
Webm == "video/webm"
EmptyMime == ""

MimeTypes == { Mp4Avc1, Mp4, WebmVp9, Webm }

\* the array literal the format selects
Candidates(fmt) ==
    IF fmt = "mp4" THEN << Mp4Avc1, Mp4, Webm >> ELSE << WebmVp9, Webm >>

\* list.find(t => MediaRecorder.isTypeSupported(t)) || ''
FirstSupported(list, sup) ==
    LET hits == { k \in 1..Len(list) : list[k] \in sup }
    IN  IF hits = {} THEN EmptyMime ELSE list[CHOOSE k \in hits : \A j \in hits : k <= j]

Negotiate(fmt, sup) == FirstSupported(Candidates(fmt), sup)

NoBuffer == -1      \* seg.audioBuffer is undefined
NoTime == -1

Event(ev, scene, frame, image, captions) ==
    [ ev |-> ev, scene |-> scene, frame |-> frame, image |-> image, captions |-> captions ]

NoClock == [ audioStart |-> NoTime, firstFrame |-> NoTime, lastFrame |-> NoTime, loopEnd |-> NoTime ]

Pending == [ state |-> "pending", url |-> "", actualMime |-> "", error |-> "" ]

\* f <= totalFrames
InLoopInclusive(frame, durationMs) == frame * 1000 <= durationMs * FPS

\* buffer.duration * FPS with the duration in ms: f < totalFrames
InLoop(frame, durationMs) == frame * 1000 < durationMs * FPS

\* (f + 1) / totalFrames
FrameProgressOneBased(frame, durationMs) == Frac((frame + 1) * 1000, durationMs * FPS)

\* f / totalFrames
FrameProgress(frame, durationMs) == Frac(frame * 1000, durationMs * FPS)

\* elapsed < frameDuration, frameDuration = 1000 / FPS
MustWait(elapsed) == elapsed * FPS < 1000

\* a loop that draws frame 0 again and again
SameFrame(frame) == frame

\* f++
NextFrame(frame) == frame + 1

\* setTimeout(r, frameDuration - elapsed): the timeout is converted to a long,
\* which drops the fraction of a millisecond
TimeoutMs(elapsed) == (1000 - elapsed * FPS) \div FPS

\* the test of ctx placed after the creation of the audio context
CanvasFailsLate ==
    /\ pc = "start"
    /\ ~ctxOk
    /\ audioContext' = "running"
    /\ settled' = [ Pending EXCEPT !.state = "rejected", !.error = "Canvas context failed" ]
    /\ pc' = "done"
    /\ UNCHANGED << appVars, measure, supported, ctxOk, layoutVars, segments, showCaptions, format,
                    mimeType, recorder, layoutCache, images, i, f, now,
                    frameStart, timerAt, sceneClock, log >>

\* ---- lines 177-223: up to the await of the image loads (audioContext.resume()
\* and the stream wiring change nothing that is read below; segment ids are
\* unique, so the layoutCache key of a segment is its position)
CanvasFails ==
    /\ pc = "start"
    /\ ~ctxOk
    /\ settled' = [ Pending EXCEPT !.state = "rejected", !.error = "Canvas context failed" ]
    /\ pc' = "done"
    /\ UNCHANGED << appVars, measure, supported, ctxOk, layoutVars, segments, showCaptions, format,
                    mimeType, recorder, audioContext, layoutCache, images, i, f, now,
                    frameStart, timerAt, sceneClock, log >>

\* the set-up without the forEach of lines 211-213: layouts left to be built later
SetupWithoutLayouts ==
    /\ pc = "start"
    /\ ctxOk
    /\ audioContext' = "running"
    /\ mimeType' = Negotiate(format, supported)
    /\ recorder' = "inactive"
    /\ layoutCache' = [ k \in 1..Len(segments) |-> NoLayout ]
    /\ log' = Append(log, Event("onProgress: Pre-loading visuals...", 0, 0, FALSE, << >>))
    /\ images' = [ k \in 1..Len(segments) |->
                     IF segments[k].image = "none" THEN "null" ELSE "pending" ]
    /\ pc' = "loading"
    /\ UNCHANGED << appVars, measure, supported, ctxOk, layoutVars, segments, showCaptions, format,
                    i, f, now, frameStart, timerAt, sceneClock, settled >>

Setup ==
    /\ pc = "start"
    /\ ctxOk
    /\ audioContext' = "running"
    /\ mimeType' = Negotiate(format, supported)
    /\ recorder' = "inactive"
    /\ layoutCache' = [ k \in 1..Len(segments) |->
                          IF segments[k].narration # << >>
                          THEN calculateTextLayout(measure, segments[k].narration,
                                                   CaptionMaxWidth, CaptionStartY, CaptionFontSize)
                          ELSE NoLayout ]
    /\ log' = Append(log, Event("onProgress: Pre-loading visuals...", 0, 0, FALSE, << >>))
    /\ images' = [ k \in 1..Len(segments) |->
                     IF segments[k].image = "none" THEN "null" ELSE "pending" ]
    /\ pc' = "loading"
    /\ UNCHANGED << appVars, measure, supported, ctxOk, layoutVars, segments, showCaptions, format,
                    i, f, now, frameStart, timerAt, sceneClock, settled >>

\* img.onload = () => r(img)
ImageLoads(k) ==
    /\ pc = "loading"
    /\ images[k] = "pending"
    /\ segments[k].image = "ok"
    /\ images' = [ images EXCEPT ![k] = "img" ]
    /\ UNCHANGED << appVars, measure, supported, ctxOk, layoutVars, segments, showCaptions, format,
                    pc, mimeType, recorder, audioContext, layoutCache, i, f, now,
                    frameStart, timerAt, sceneClock, log, settled >>

\* img.onerror rejecting the image promise, which rejects Promise.all
ImageFailsRejects(k) ==
    /\ pc = "loading"
    /\ images[k] = "pending"
    /\ segments[k].image = "broken"
    /\ images' = [ images EXCEPT ![k] = "null" ]
    /\ settled' = [ Pending EXCEPT !.state = "rejected", !.error = "image" ]
    /\ pc' = "done"
    /\ UNCHANGED << appVars, measure, supported, ctxOk, layoutVars, segments, showCaptions, format,
                    mimeType, recorder, audioContext, layoutCache, i, f, now,
                    frameStart, timerAt, sceneClock, log >>

\* img.onerror = () => r(null)
ImageFails(k) ==
    /\ pc = "loading"
    /\ images[k] = "pending"
    /\ segments[k].image = "broken"
    /\ images' = [ images EXCEPT ![k] = "null" ]
    /\ UNCHANGED << appVars, measure, supported, ctxOk, layoutVars, segments, showCaptions, format,
                    pc, mimeType, recorder, audioContext, layoutCache, i, f, now,
                    frameStart, timerAt, sceneClock, log, settled >>

\* ---- lines 225-232: the executor starts once every image promise is settled
StartRecording ==
    /\ pc = "loading"
    /\ \A k \in 1..Len(segments) : images[k] # "pending"
    /\ recorder' = "recording"
    /\ log' = Append(log, Event("mediaRecorder.start", 0, 0, FALSE, << >>))
    /\ i' = 1
    /\ pc' = "scene"
    /\ UNCHANGED << appVars, measure, supported, ctxOk, layoutVars, segments, showCaptions, format,
                    mimeType, audioContext, layoutCache, images, f, now, frameStart,
                    timerAt, sceneClock, settled >>

\* break instead of continue
SkipSceneBreak ==
    /\ pc = "scene"
    /\ i <= Len(segments)
    /\ segments[i].audioBuffer = NoBuffer
    /\ i' = Len(segments) + 1
    /\ UNCHANGED << appVars, measure, supported, ctxOk, layoutVars, segments, showCaptions, format,
                    pc, mimeType, recorder, audioContext, layoutCache, images, f, now,
                    frameStart, timerAt, sceneClock, log, settled >>

\* ---- lines 260-264: if (!buffer) continue
SkipScene ==
    /\ pc = "scene"
    /\ i <= Len(segments)
    /\ segments[i].audioBuffer = NoBuffer
    /\ i' = i + 1
    /\ UNCHANGED << appVars, measure, supported, ctxOk, layoutVars, segments, showCaptions, format,
                    pc, mimeType, recorder, audioContext, layoutCache, images, f, now,
                    frameStart, timerAt, sceneClock, log, settled >>

\* the message built from the zero-based loop index
StartSceneZeroBased ==
    /\ pc = "scene"
    /\ i <= Len(segments)
    /\ segments[i].audioBuffer # NoBuffer
    /\ log' = log \o << Event("onProgress: Encoding Scene", i - 1, Len(segments), FALSE, << >>),
                        Event("source.start", i, 0, FALSE, << >>) >>
    /\ sceneClock' = [ sceneClock EXCEPT ![i].audioStart = now ]
    /\ f' = 0
    /\ pc' = "frame"
    /\ UNCHANGED << appVars, measure, supported, ctxOk, layoutVars, segments, showCaptions, format,
                    mimeType, recorder, audioContext, layoutCache, images, i, now,
                    frameStart, timerAt, settled >>

\* ---- lines 266-274: onProgress, source.start()
StartScene ==
    /\ pc = "scene"
    /\ i <= Len(segments)
    /\ segments[i].audioBuffer # NoBuffer
    /\ log' = log \o << Event("onProgress: Encoding Scene", i, Len(segments), FALSE, << >>),
                        Event("source.start", i, 0, FALSE, << >>) >>
    /\ sceneClock' = [ sceneClock EXCEPT ![i].audioStart = now ]
    /\ f' = 0
    /\ pc' = "frame"
    /\ UNCHANGED << appVars, measure, supported, ctxOk, layoutVars, segments, showCaptions, format,
                    mimeType, recorder, audioContext, layoutCache, images, i, now,
                    frameStart, timerAt, settled >>

\* ---- lines 266-270 when createBufferSource, the assignment of the buffer,
\* connect or start throws: the exception leaves the async executor of line 225,
\* whose own promise nobody reads; resolve is never called and the executor has
\* no reject parameter
SourceThrows ==
    /\ pc = "scene"
    /\ i <= Len(segments)
    /\ segments[i].audioBuffer # NoBuffer
    /\ log' = Append(log, Event("onProgress: Encoding Scene", i, Len(segments), FALSE, << >>))
    /\ pc' = "thrown"
    /\ UNCHANGED << appVars, measure, supported, ctxOk, layoutVars, segments, showCaptions, format,
                    mimeType, recorder, audioContext, layoutCache, images, i, f, now,
                    frameStart, timerAt, sceneClock, settled >>

\* a frame loop that drops the next frame after a slow one to catch up
DrawFrameCatchUp(d) ==
    /\ pc = "frame"
    /\ InLoop(f, segments[i].audioBuffer)
    /\ frameStart' = now
    /\ log' = Append(log, Event("frame", i, f, images[i] = "img",
                                drawCaptions(showCaptions, layoutCache[i],
                                             FrameProgress(f, segments[i].audioBuffer))))
    /\ sceneClock' = [ sceneClock EXCEPT
                         ![i].firstFrame = IF f = 0 THEN now ELSE @,
                         ![i].lastFrame = now ]
    /\ now' = now + d
    /\ LET elapsed == now' - frameStart'
       IN  IF MustWait(elapsed)
           THEN /\ timerAt' = now' + TimeoutMs(elapsed)
                /\ pc' = "wait"
                /\ f' = f
           ELSE /\ timerAt' = timerAt
                /\ pc' = "frame"
                /\ f' = NextFrame(f) + 1
    /\ UNCHANGED << appVars, measure, supported, ctxOk, layoutVars, segments, showCaptions, format,
                    mimeType, recorder, audioContext, layoutCache, images, i, settled >>

\* ---- lines 276-287: one frame, whose drawing takes d ms
DrawFrame(d) ==
    /\ pc = "frame"
    /\ InLoop(f, segments[i].audioBuffer)
    /\ frameStart' = now
    /\ log' = Append(log, Event("frame", i, f, images[i] = "img",
                                drawCaptions(showCaptions, layoutCache[i],
                                             FrameProgress(f, segments[i].audioBuffer))))
    /\ sceneClock' = [ sceneClock EXCEPT
                         ![i].firstFrame = IF f = 0 THEN now ELSE @,
                         ![i].lastFrame = now ]
    /\ now' = now + d
    /\ LET elapsed == now' - frameStart'
       IN  IF MustWait(elapsed)
           THEN /\ timerAt' = now' + TimeoutMs(elapsed)
                /\ pc' = "wait"
                /\ f' = f
           ELSE /\ timerAt' = timerAt
                /\ pc' = "frame"
                /\ f' = NextFrame(f)
    /\ UNCHANGED << appVars, measure, supported, ctxOk, layoutVars, segments, showCaptions, format,
                    mimeType, recorder, audioContext, layoutCache, images, i, settled >>

\* the timer of line 287 fires, late ms after its earliest time
TimerFires(late) ==
    /\ pc = "wait"
    /\ now' = timerAt + late
    /\ f' = NextFrame(f)
    /\ pc' = "frame"
    /\ UNCHANGED << appVars, measure, supported, ctxOk, layoutVars, segments, showCaptions, format,
                    mimeType, recorder, audioContext, layoutCache, images, i, frameStart,
                    timerAt, sceneClock, log, settled >>

\* mediaRecorder.stop() placed inside the scene loop
EndSceneAndStop ==
    /\ pc = "frame"
    /\ ~InLoop(f, segments[i].audioBuffer)
    /\ sceneClock' = [ sceneClock EXCEPT ![i].loopEnd = now ]
    /\ recorder' = "inactive"
    /\ log' = Append(log, Event("mediaRecorder.stop", 0, 0, FALSE, << >>))
    /\ i' = i + 1
    /\ pc' = "scene"
    /\ UNCHANGED << appVars, measure, supported, ctxOk, layoutVars, segments, showCaptions, format,
                    mimeType, audioContext, layoutCache, images, f, now,
                    frameStart, timerAt, settled >>

\* the frame loop of scene i is over: f < totalFrames is false
EndScene ==
    /\ pc = "frame"
    /\ ~InLoop(f, segments[i].audioBuffer)
    /\ sceneClock' = [ sceneClock EXCEPT ![i].loopEnd = now ]
    /\ i' = i + 1
    /\ pc' = "scene"
    /\ UNCHANGED << appVars, measure, supported, ctxOk, layoutVars, segments, showCaptions, format,
                    mimeType, recorder, audioContext, layoutCache, images, f, now,
                    frameStart, timerAt, log, settled >>

\* ---- line 291: mediaRecorder.stop()
StopRecording ==
    /\ pc = "scene"
    /\ i > Len(segments)
    /\ recorder' = "inactive"
    /\ log' = Append(log, Event("mediaRecorder.stop", 0, 0, FALSE, << >>))
    /\ pc' = "stopping"
    /\ UNCHANGED << appVars, measure, supported, ctxOk, layoutVars, segments, showCaptions, format,
                    mimeType, audioContext, layoutCache, images, i, f, now, frameStart,
                    timerAt, sceneClock, settled >>

\* ---- lines 226-230: mediaRecorder.onstop
OnStop ==
    /\ pc = "stopping"
    /\ audioContext' = "closed"
    /\ settled' = [ Pending EXCEPT !.state = "resolved", !.url = "blob:video",
                                   !.actualMime = mimeType ]
    /\ log' = Append(log, Event("resolve", 0, 0, FALSE, << >>))
    /\ pc' = "done"
    /\ UNCHANGED << appVars, measure, supported, ctxOk, layoutVars, segments, showCaptions, format,
                    mimeType, recorder, layoutCache, images, i, f, now, frameStart,
                    timerAt, sceneClock >>

----------------------------------------------------------------------------
(* App.tsx: handleStartGeneration, handleUpdateScene *)

\* an optional field that is not set
Undefined == [ kind |-> "undefined", of |-> << >> ]

\* what generateVoiceForSegment(narration, voice) resolves with
VoiceOf(narration) ==
    [ audioUrl |-> [ kind |-> "audioUrl", of |-> narration ],
      duration |-> [ kind |-> "audioDuration", of |-> narration ],
      buffer |-> [ kind |-> "audioBuffer", of |-> narration ] ]

\* what generateImageForSegment(visualDescription, style) resolves with
ImageOf(visual) == [ kind |-> "imageUrl", of |-> visual ]

\* a mistaken limit of four chains
ConcurrencyLimitFour == 3 + 1

CONCURRENCY_LIMIT == 3

Workers == 1..CONCURRENCY_LIMIT

NoSegment ==
    [ id |-> 0, narration |-> << >>, visualDescription |-> << >>, audioUrl |-> Undefined,
      audioDuration |-> Undefined, audioBuffer |-> Undefined, imageUrl |-> Undefined ]

\* a processNext chain that has not been called, and one that has returned
IdleWorker == [ pc |-> "idle", seg |-> NoSegment, voice |-> "none", image |-> "none" ]
ReturnedWorker == [ pc |-> "done", seg |-> NoSegment, voice |-> "none", image |-> "none" ]

\* processNext up to its await: return when the queue is empty, else shift a
\* segment and ask for its voice and its image unless the segment has them
processNext(q) ==
    IF Len(q) = 0 THEN [ queue |-> q, worker |-> ReturnedWorker, took |-> << >> ]
    ELSE LET segment == Head(q)
         IN  [ queue |-> Tail(q),
               worker |-> [ pc |-> "await",
                            seg |-> segment,
                            voice |-> IF segment.audioUrl # Undefined
                                         /\ segment.audioBuffer # Undefined
                                      THEN "cached" ELSE "pending",
                            image |-> IF segment.imageUrl # Undefined
                                      THEN "cached" ELSE "pending" ],
               took |-> << segment.id >> ]

\* Array.from({ length: CONCURRENCY_LIMIT }).map(() => processNext()), from chain w on
RECURSIVE StartWorkersFrom(_, _, _, _)
StartWorkersFrom(w, q, ws, tk) ==
    IF w > CONCURRENCY_LIMIT THEN [ queue |-> q, workers |-> ws, taken |-> tk ]
    ELSE LET r == processNext(q)
         IN  StartWorkersFrom(w + 1, r.queue, [ ws EXCEPT ![w] = r.worker ], tk \o r.took)

\* project.segments.findIndex(s => s.id === id): zero-based, -1 when absent
findIndex(segs, id) ==
    LET hits == { k \in 1..Len(segs) : segs[k].id = id }
    IN  IF hits = {} THEN -1 ELSE (CHOOSE k \in hits : \A j \in hits : k <= j) - 1

\* the list left in the order of completion
Unsorted(list, segs) == list

\* finalSegments.sort((a, b) => indexA - indexB): a stable sort, by insertion
RECURSIVE InsertSorted(_, _, _)
InsertSorted(sorted, s, segs) ==
    IF sorted = << >> THEN << s >>
    ELSE IF findIndex(segs, Head(sorted).id) - findIndex(segs, s.id) <= 0
         THEN << Head(sorted) >> \o InsertSorted(Tail(sorted), s, segs)
         ELSE << s >> \o sorted

RECURSIVE SortFrom(_, _, _, _)
SortFrom(list, k, acc, segs) ==
    IF k > Len(list) THEN acc ELSE SortFrom(list, k + 1, InsertSorted(acc, list[k], segs), segs)

SortByIndex(list, segs) == SortFrom(list, 1, << >>, segs)

\* the push of lines 142-148
FinishedSegment(w) ==
    LET segment == w.seg
        voiceRes == IF w.voice = "cached"
                    THEN [ audioUrl |-> segment.audioUrl, duration |-> segment.audioDuration,
                           buffer |-> segment.audioBuffer ]
                    ELSE VoiceOf(segment.narration)
        imageRes == IF w.image = "cached" THEN segment.imageUrl
                    ELSE ImageOf(segment.visualDescription)
    IN  [ segment EXCEPT !.audioUrl = voiceRes.audioUrl,
                         !.audioDuration = voiceRes.duration,
                         !.audioBuffer = voiceRes.buffer,
                         !.imageUrl = imageRes ]

\* an update that leaves the audio of the old narration in place
UpdatedSegmentKeepsAudio(s, narration, visual) ==
    LET updated == [ s EXCEPT !.narration = narration, !.visualDescription = visual ]
    IN  IF s.visualDescription # visual THEN [ updated EXCEPT !.imageUrl = Undefined ]
        ELSE updated

\* lines 184-193: the segment handleUpdateScene puts in the place of s
UpdatedSegment(s, narration, visual) ==
    LET updated == [ s EXCEPT !.narration = narration, !.visualDescription = visual ]
        updated1 == IF s.narration # narration
                    THEN [ updated EXCEPT !.audioUrl = Undefined, !.audioBuffer = Undefined ]
                    ELSE updated
    IN  IF s.visualDescription # visual THEN [ updated1 EXCEPT !.imageUrl = Undefined ]
        ELSE updated1

AppIdle ==
    /\ step = "SCRIPT"
    /\ snapshot = << >>
    /\ queue = << >>
    /\ finalSegments = << >>
    /\ completed = 0
    /\ workers = [ w \in Workers |-> IdleWorker ]
    /\ gen = "idle"
    /\ renderCalls = 0
    /\ rendered = << >>
    /\ taken = << >>
    /\ pushed = << >>
    /\ edits = 0

----------------------------------------------------------------------------

(* Inputs *)

ShortAudio == 50       \* ms: 1.5 frames
LongAudio == 100       \* ms: 3 frames

Durations == { ShortAudio, LongAudio }

Narration == << "a", ",", Space, "b", "." >>

RenderTexts == { << >>, Narration }

WideFont == [ letter |-> 400, space |-> 100, punct |-> 100 ]

Measures == [ letter : 1..MaxCharWidth, space : 1..MaxCharWidth, punct : { 1 } ]

Texts == UNION { [ 1..n -> Alphabet ] : n \in 0..MaxTextLen } \cup { HelloWorld }

Scenes == [ narration : RenderTexts, image : { "ok", "broken" },
            audioBuffer : { NoBuffer } \cup Durations ]

SegmentLists == UNION { [ 1..n -> Scenes ] : n \in 0..MaxScenes }

NotCalled == << -1, 1 >>

IdleLayout ==
    /\ text = << >>
    /\ maxWidth = 0
    /\ layout = NoLayout
    /\ progress = NotCalled
    /\ drawn = << >>

StartOfRender ==
    /\ pc = "start"
    /\ mimeType = EmptyMime
    /\ recorder = "none"
    /\ audioContext = "none"
    /\ layoutCache = << >>
    /\ images = << >>
    /\ i = 0
    /\ f = 0
    /\ now = 0
    /\ frameStart = 0
    /\ timerAt = 0
    /\ sceneClock = [ k \in 1..Len(segments) |-> NoClock ]
    /\ log = << >>
    /\ settled = Pending

Init ==
    /\ measure = WideFont
    /\ supported = MimeTypes
    /\ ctxOk \in BOOLEAN
    /\ segments \in SegmentLists
    /\ showCaptions \in BOOLEAN
    /\ format = "mp4"
    /\ IdleLayout
    /\ StartOfRender
    /\ project = << >>
    /\ AppIdle

Next ==
    \/ CanvasFails
    \/ Setup
    \/ \E k \in 1..Len(segments) : ImageLoads(k)
    \/ \E k \in 1..Len(segments) : ImageFails(k)
    \/ StartRecording
    \/ SkipScene
    \/ StartScene
    \/ SourceThrows
    \/ \E d \in { 0, SlowDraw } : DrawFrame(d)
    \/ \E late \in 0..MaxLate : TimerFires(late)
    \/ EndScene
    \/ StopRecording
    \/ OnStop

Spec == Init /\ [][Next]_vars

\* the steps of the frame loop of lines 276-288
FrameLoop ==
    \/ \E d \in { 0, SlowDraw } : DrawFrame(d)
    \/ \E late \in 0..MaxLate : TimerFires(late)
    \/ EndScene

\* the event loop runs the continuation of the frame loop and every timer that
\* is due
FairSpec == Spec /\ WF_vars(FrameLoop)

----------------------------------------------------------------------------
(* renderVideo on every platform and both formats, for one segment list *)

SampleSegments ==
    << [ narration |-> Narration, image |-> "broken", audioBuffer |-> LongAudio ],
       [ narration |-> << >>, image |-> "none", audioBuffer |-> NoBuffer ],
       [ narration |-> Narration, image |-> "ok", audioBuffer |-> ShortAudio ] >>

EncodingInit ==
    /\ measure = WideFont
    /\ supported \in SUBSET MimeTypes
    /\ ctxOk \in BOOLEAN
    /\ segments = SampleSegments
    /\ showCaptions = TRUE
    /\ format \in { "mp4", "webm" }
    /\ IdleLayout
    /\ StartOfRender
    /\ project = << >>
    /\ AppIdle

EncodingSpec == EncodingInit /\ [][Next]_vars

----------------------------------------------------------------------------
(* calculateTextLayout and drawCaptions on enumerated arguments *)

CallCalculateTextLayout ==
    /\ layout = NoLayout
    /\ layout' = calculateTextLayout(measure, text, maxWidth, CaptionStartY, CaptionFontSize)
    /\ UNCHANGED << appVars, measure, supported, ctxOk, text, maxWidth, progress, drawn, renderVars >>

CallDrawCaptions(p) ==
    /\ layout # NoLayout
    /\ progress' = p
    /\ drawn' = drawCaptions(showCaptions, layout, p)
    /\ UNCHANGED << appVars, measure, supported, ctxOk, text, maxWidth, layout, renderVars >>

LayoutInit ==
    /\ measure \in Measures
    /\ supported = MimeTypes
    /\ ctxOk = TRUE
    /\ text \in Texts
    /\ maxWidth \in 1..MaxLineWidth
    /\ layout = NoLayout
    /\ progress = NotCalled
    /\ drawn = << >>
    /\ segments = << >>
    /\ showCaptions = TRUE
    /\ format = "mp4"
    /\ StartOfRender
    /\ project = << >>
    /\ AppIdle

LayoutNext ==
    \/ CallCalculateTextLayout
    \/ \E k \in 0..ProgressSteps : CallDrawCaptions(Frac(k, ProgressSteps))

LayoutSpec == LayoutInit /\ [][LayoutNext]_vars

----------------------------------------------------------------------------
(* Properties of calculateTextLayout and drawCaptions (LayoutSpec) *)

Built == layout # NoLayout

Spans == layout.flattenedWords

LineWords == Flatten([ l \in 1..Len(layout.lines) |-> layout.lines[l].words ])

\* C1: for a non-empty text the flattened word spans start at fraction 0, end at
\* fraction 1, and each span ends where the next one starts.
FractionCoverage ==
    (Built /\ text # << >>) =>
        /\ Len(Spans) >= 1
        /\ Spans[1].startTime = Zero
        /\ Spans[Len(Spans)].endTime = One
        /\ \A k \in 1..(Len(Spans) - 1) : Spans[k].endTime = Spans[k + 1].startTime

\* a layout of three or more words on two or more lines, one of them ending in a mark
FractionCoverageWitness ==
    /\ Built
    /\ Len(Spans) >= 3
    /\ Len(layout.lines) >= 2
    /\ \E k \in 1..Len(Spans) : endsWith(Spans[k].text, PauseMarks \cup StopMarks)

\* C2: the words of all lines, in order, are the words of text.split(' '), also
\* when a single word is wider than the maximum line width.
NoWordDrop ==
    Built => [ k \in 1..Len(LineWords) |-> LineWords[k].text ] = Split(text)

\* a layout of several lines that holds a word wider than maxWidth
NoWordDropWitness ==
    /\ Built
    /\ Len(layout.lines) >= 2
    /\ \E k \in 1..Len(LineWords) : LineWords[k].width > maxWidth

Hits == { k \in 1..Len(Spans) : Contains(Spans[k], progress) }

Highlighted == { k \in 1..Len(drawn) : drawn[k].isActive }

\* C4: at most one span contains the fraction drawCaptions is called with, the
\* highlighted word is the first span containing it and no other word is
\* highlighted; "Hello, world!" highlights "Hello," at 0.3 and "world!" at 0.6.
HighlightSelection ==
    (Built /\ progress # NotCalled) =>
        /\ Cardinality(Hits) <= 1
        /\ Len(drawn) = Len(Spans)
        /\ \A k \in 1..Len(drawn) :
             /\ drawn[k].text = Spans[k].text
             /\ drawn[k].isActive <=> (k \in Hits /\ \A j \in Hits : k <= j)
        /\ (text = HelloWorld /\ progress = Frac(3, 10)) => Highlighted = { 1 }
        /\ (text = HelloWorld /\ progress = Frac(6, 10)) => Highlighted = { 2 }

\* "Hello, world!" drawn at fraction 0.6 with "world!" highlighted
HighlightSelectionWitness ==
    /\ Built
    /\ text = HelloWorld
    /\ progress = Frac(6, 10)
    /\ Highlighted = { 2 }
    /\ drawn[2].text = << "w", "o", "r", "l", "d", "!" >>

----------------------------------------------------------------------------
(* Properties of renderVideo *)

LogIndex(ev) == { k \in 1..Len(log) : log[k].ev = ev }

Frames == LogIndex("frame")

Composited == { k \in 1..Len(segments) : sceneClock[k].audioStart # NoTime }

\* C5: scenes are composited in input order: in the order of drawing, a later
\* frame belongs to the same scene with a larger frame index or to a later
\* scene, and the last frame of a scene is not later in time than the first
\* frame of any scene after it.
SceneOrder ==
    /\ \A a \in Frames : \A b \in Frames :
         a < b => \/ log[a].scene < log[b].scene
                  \/ log[a].scene = log[b].scene /\ log[a].frame < log[b].frame
    /\ \A m \in 1..Len(segments) : \A n \in 1..Len(segments) :
         (m < n /\ sceneClock[m].lastFrame # NoTime /\ sceneClock[n].firstFrame # NoTime)
             => sceneClock[m].lastFrame <= sceneClock[n].firstFrame

\* two scenes of several frames each have been drawn
SceneOrderWitness ==
    /\ pc = "done"
    /\ \E a \in Frames : \E b \in Frames :
         log[a].scene < log[b].scene /\ log[a].frame >= 2 /\ log[b].frame >= 1

\* C6: the audio of a scene starts only after the frame loop of every earlier
\* composited scene has ended, and by then at least the audio duration of that
\* earlier scene has passed since its audio started.
AudioNeverOverlaps ==
    \A m \in Composited : \A n \in Composited :
        m < n => /\ sceneClock[m].loopEnd # NoTime
                 /\ sceneClock[m].loopEnd <= sceneClock[n].audioStart
                 /\ sceneClock[n].audioStart - sceneClock[m].audioStart
                        >= segments[m].audioBuffer

RecorderStarts == LogIndex("mediaRecorder.start")
RecorderStops == LogIndex("mediaRecorder.stop")
Drawing == LogIndex("frame") \cup LogIndex("source.start")

\* C7: the recorder is started at most once and before any audio source or frame,
\* it is stopped at most once and after every audio source and frame, and the
\* promise resolves only after that one start and one stop, with onstop last.
SingleRecordingSession ==
    /\ Cardinality(RecorderStarts) <= 1
    /\ Cardinality(RecorderStops) <= 1
    /\ \A k \in Drawing : /\ \E a \in RecorderStarts : a < k
                          /\ \A b \in RecorderStops : k < b
    /\ (recorder = "recording") <=> (RecorderStarts # {} /\ RecorderStops = {})
    /\ settled.state = "resolved" =>
         /\ Cardinality(RecorderStarts) = 1
         /\ Cardinality(RecorderStops) = 1
         /\ \A r \in LogIndex("resolve") : \A b \in RecorderStops : b < r

\* a render of two composited scenes has resolved
SingleRecordingSessionWitness ==
    /\ settled.state = "resolved"
    /\ Cardinality(Composited) >= 2
    /\ Cardinality(Frames) >= 4

\* the order of section 4.2 step 2: the preferred container with its codec, the
\* preferred container, the other container with its codec, the other container
ClaimedOrder(fmt) ==
    IF fmt = "mp4" THEN << Mp4Avc1, Mp4, WebmVp9, Webm >>
    ELSE << WebmVp9, Webm, Mp4Avc1, Mp4 >>

Negotiated == pc # "start" /\ ctxOk

\* C8: the encoding chosen is the first supported identifier of the order own
\* codec, own container, other codec, other container, for both formats and
\* every set of supported identifiers.
FirstSupportedWins ==
    Negotiated => mimeType = FirstSupported(ClaimedOrder(format), supported)

OtherContainer == IF format = "mp4" THEN { WebmVp9, Webm } ELSE { Mp4Avc1, Mp4 }

OnlyOtherSupported == supported # {} /\ supported \subseteq OtherContainer

\* C9: when only identifiers of the non-preferred container are supported, the
\* render resolves and the media type it returns is one of that container.
FallbackToOtherContainer ==
    (pc = "done" /\ ctxOk /\ OnlyOtherSupported) =>
        /\ settled.state = "resolved"
        /\ settled.actualMime \in OtherContainer

\* C10: when no identifier is supported, the render is rejected and neither
\* starts the recorder nor draws a frame.
NoEncodingFails ==
    (ctxOk /\ supported = {}) =>
        /\ RecorderStarts = {}
        /\ Frames = {}
        /\ settled.state # "resolved"
        /\ pc = "done" => settled.state = "rejected"


\* C11: when getContext('2d') returns null the render is rejected at once: no
\* audio context, no recorder, no image load, no onProgress call, no frame and
\* no result.
SurfaceFailureIsImmediate ==
    ~ctxOk =>
        /\ audioContext = "none"
        /\ recorder = "none"
        /\ images = << >>
        /\ log = << >>
        /\ settled.state # "resolved"
        /\ pc \in { "start", "done" }
        /\ pc = "done" => (settled.state = "rejected" /\ settled.error = "Canvas context failed")

\* a render of a scene with audio was rejected for want of a drawing surface
SurfaceFailureIsImmediateWitness ==
    /\ ~ctxOk
    /\ pc = "done"
    /\ settled.state = "rejected"
    /\ \E k \in 1..Len(segments) : segments[k].audioBuffer # NoBuffer

\* smallest N with N / FPS >= durationMs / 1000
FramesFor(durationMs) == (durationMs * FPS + 999) \div 1000

FramesOf(k) == { a \in Frames : log[a].scene = k }

\* the captions of frame fr of scene k, from the narration of that scene alone
CaptionsOf(k, fr) ==
    drawCaptions(showCaptions,
                 IF segments[k].narration = << >> THEN NoLayout
                 ELSE calculateTextLayout(measure, segments[k].narration,
                                          CaptionMaxWidth, CaptionStartY, CaptionFontSize),
                 Frac(fr * 1000, segments[k].audioBuffer * FPS))

Finished == pc = "done" /\ ctxOk

\* C12: a render in which an image failed to load still resolves; a scene with
\* audio has the frames its duration asks for, image or not; a frame shows the
\* image only if it loaded, and shows the captions of its own narration; the
\* audio of the scene is started once.
ImageFailureTolerated ==
    Finished =>
        /\ settled.state = "resolved"
        /\ \A k \in 1..Len(segments) :
             segments[k].audioBuffer # NoBuffer =>
                /\ Cardinality(FramesOf(k)) = FramesFor(segments[k].audioBuffer)
                /\ Cardinality({ a \in LogIndex("source.start") : log[a].scene = k }) = 1
                /\ \A a \in FramesOf(k) :
                     /\ log[a].image = (segments[k].image = "ok")
                     /\ log[a].captions = CaptionsOf(k, log[a].frame)

\* a resolved render of two scenes with audio and captions, the image of one
\* of them broken and the image of the other loaded
ImageFailureToleratedWitness ==
    /\ Finished
    /\ settled.state = "resolved"
    /\ showCaptions
    /\ \E k \in 1..Len(segments) : \E j \in 1..Len(segments) :
         /\ segments[k].image = "broken" /\ segments[k].audioBuffer # NoBuffer
         /\ segments[k].narration # << >>
         /\ segments[j].image = "ok" /\ segments[j].audioBuffer # NoBuffer
         /\ \E a \in FramesOf(k) : log[a].captions # << >> /\ ~log[a].image

\* C13: a scene without audio buffer leaves no trace (no source.start, no frame,
\* no onProgress) and does not stop the render: once the render is over every
\* scene with a buffer has been composited.
SilentSceneSkipped ==
    /\ \A k \in 1..Len(segments) :
         segments[k].audioBuffer = NoBuffer =>
            /\ \A a \in 1..Len(log) : log[a].scene # k
            /\ sceneClock[k] = NoClock
    /\ Finished => \A k \in 1..Len(segments) :
                      segments[k].audioBuffer # NoBuffer => FramesOf(k) # {}

\* a scene without audio was passed over and the scene after it was drawn
SilentSceneSkippedWitness ==
    /\ Finished
    /\ Len(segments) >= 2
    /\ segments[1].audioBuffer = NoBuffer
    /\ FramesOf(2) # {}


\* renderVideo has no step left to take
Terminal == pc \in { "done", "thrown" }

\* C14: a call of renderVideo does not stay pending: once it has no step left,
\* also after a collaborator threw inside the scene loop, its promise is
\* resolved with url and media type or rejected with an error.
EveryCallSettles ==
    Terminal =>
        \/ settled.state = "resolved" /\ settled.url # ""
        \/ settled.state = "rejected" /\ settled.error # ""


\* a - b on rationals
FracSub(a, b) == Frac(a[1] * b[2] - b[1] * a[2], a[2] * b[2])

PunctuationBonus(t) ==
    IF Len(t) = 0 THEN 0
    ELSE IF t[Len(t)] \in { ".", "!", "?" } THEN 8
    ELSE IF t[Len(t)] \in { ",", ";" } THEN 4
    ELSE 0

ClaimedWeight(t) == Max(1, Len(t) + PunctuationBonus(t))

ClaimedTotal == SumSeq([ k \in 1..Len(Spans) |-> ClaimedWeight(Spans[k].text) ])

\* C15: the share of every word, endFraction - startFraction, is its weight
\* max(1, characters + bonus) over the total weight, the bonus being 8 after
\* . ! ? and 4 after , ; ; "Hello, world!" has weights 10 and 14 and its
\* boundary at 10/24.
WeightedShares ==
    Built =>
        /\ \A k \in 1..Len(Spans) :
             FracSub(Spans[k].endTime, Spans[k].startTime)
                 = Frac(ClaimedWeight(Spans[k].text), ClaimedTotal)
        /\ text = HelloWorld =>
             /\ ClaimedWeight(Spans[1].text) = 10
             /\ ClaimedWeight(Spans[2].text) = 14
             /\ Spans[1].endTime = Frac(10, 24)
             /\ Spans[2].startTime = Frac(10, 24)

\* the layout of "Hello, world!", a pause mark and a stop mark
WeightedSharesWitness ==
    /\ Built
    /\ text = HelloWorld
    /\ Len(Spans) = 2
    /\ Spans[1].endTime = Frac(10, 24)

\* C16: the layout of the empty string has no line and no flattened word.
EmptyTextEmptyLayout ==
    (Built /\ text = << >>) => (Len(layout.lines) = 0 /\ Len(Spans) = 0)

WordsWidth(words) ==
    SumSeq([ k \in 1..Len(words) |-> words[k].width ]) + (Len(words) - 1) * measure.space

\* C17: every line holds a word, and a line of two or more words is not wider
\* than maxWidth (word widths plus one space between neighbours).
LinesFit ==
    Built => \A l \in 1..Len(layout.lines) :
                /\ Len(layout.lines[l].words) >= 1
                /\ Len(layout.lines[l].words) >= 2 => WordsWidth(layout.lines[l].words) <= maxWidth

\* a layout with a line of two words and a line of one word wider than maxWidth
LinesFitWitness ==
    /\ Built
    /\ \E l \in 1..Len(layout.lines) : Len(layout.lines[l].words) >= 2
    /\ \E l \in 1..Len(layout.lines) :
         /\ Len(layout.lines[l].words) = 1
         /\ layout.lines[l].words[1].width > maxWidth


\* the smallest integer N with N / 30 >= d, d = durationMs / 1000
SmallestCover(durationMs) ==
    CHOOSE n \in 0..durationMs :
        /\ n * 1000 >= durationMs * 30
        /\ \A m \in 0..(n - 1) : m * 1000 < durationMs * 30

LoopEnded(k) == sceneClock[k].loopEnd # NoTime

FrameCountExact ==
    /\ \A a \in Frames :
         log[a].frame * 1000 < segments[log[a].scene].audioBuffer * 30
    /\ \A k \in 1..Len(segments) :
         LoopEnded(k) =>
            /\ Cardinality(FramesOf(k)) = SmallestCover(segments[k].audioBuffer)
            /\ { log[a].frame : a \in FramesOf(k) } = 0..(SmallestCover(segments[k].audioBuffer) - 1)

\* C18: the frame loop of a scene of d seconds ends, and when it has ended it
\* has drawn exactly the N frames 0..N-1, N the smallest integer with
\* N/30 >= d; no frame is drawn at a synthetic time f/30 >= d.
FrameLoopCoversAudio ==
    /\ []FrameCountExact
    /\ (pc = "frame") ~> (pc = "scene")

\* the loop of a scene whose duration is not a whole number of frames has ended
FrameLoopCoversAudioWitness ==
    \E k \in 1..Len(segments) :
        /\ LoopEnded(k)
        /\ (segments[k].audioBuffer * 30) % 1000 # 0
        /\ Cardinality(FramesOf(k)) >= 2


IsFrameStep == Len(log') = Len(log) + 1 /\ log'[Len(log')].ev = "frame"

\* C19: a frame that is not the first of its scene starts no earlier than
\* 1000/30 ms after the start of the frame before it.
FramePacing ==
    [][(IsFrameStep /\ f > 0) => (frameStart' - frameStart) * 30 >= 1000]_vars

FrameIndices(k) == { log[a].frame : a \in FramesOf(k) }

Elapsed(k) == sceneClock[k].loopEnd - sceneClock[k].audioStart

\* C20: the frames drawn for a scene are always the indices 0, 1, 2, ... without
\* a gap and each once, and two scenes of the same audio duration end with the
\* same number of frames however long their frames took.
NoFrameDropped ==
    /\ \A k \in 1..Len(segments) :
         /\ FrameIndices(k) = 0..(Cardinality(FrameIndices(k)) - 1)
         /\ Cardinality(FramesOf(k)) = Cardinality(FrameIndices(k))
    /\ \A m \in 1..Len(segments) : \A n \in 1..Len(segments) :
         (LoopEnded(m) /\ LoopEnded(n) /\ segments[m].audioBuffer = segments[n].audioBuffer)
             => Cardinality(FramesOf(m)) = Cardinality(FramesOf(n))

\* two scenes of the same duration, one drawn with slow frames and one with
\* fast frames, have ended with the same frames
NoFrameDroppedWitness ==
    \E m \in 1..Len(segments) : \E n \in 1..Len(segments) :
        /\ LoopEnded(m) /\ LoopEnded(n)
        /\ segments[m].audioBuffer = segments[n].audioBuffer
        /\ Elapsed(m) > Elapsed(n)
        /\ Cardinality(FramesOf(m)) >= 2
        /\ FrameIndices(m) = FrameIndices(n)

SceneReports == LogIndex("onProgress: Encoding Scene")

ReportsOf(k) == { a \in SceneReports : log[a].scene = k }

\* C21: during the scene iteration onProgress is called exactly once for every
\* composited scene, before the first frame of that scene and never between
\* two frames of one scene; the message of the scene at position k (loop index
\* k - 1) names k and the number of scenes.
ProgressOncePerScene ==
    /\ \A k \in Composited :
         /\ Cardinality(ReportsOf(k)) = 1
         /\ \A a \in ReportsOf(k) : \A b \in FramesOf(k) : a < b
    /\ \A a \in SceneReports :
         /\ log[a].scene \in 1..Len(segments)
         /\ log[a].frame = Len(segments)
         /\ Cardinality(ReportsOf(log[a].scene)) = 1
         /\ \A k \in 1..Len(segments) : \A b \in FramesOf(k) : \A c \in FramesOf(k) :
              ~(b < a /\ a < c)

\* two scenes of several frames each were composited, each reported once
ProgressOncePerSceneWitness ==
    /\ pc = "done"
    /\ Cardinality(Composited) = 2
    /\ Cardinality(SceneReports) = 2
    /\ \A k \in Composited : Cardinality(FramesOf(k)) >= 2
    /\ \E a \in SceneReports : log[a].scene = 2 /\ log[a].frame = 2

\* what a render of segs does apart from the captions: the report of the image
\* loading, the start of the recorder, per scene with audio its report, the
\* start of its audio and its frames with the image when it loaded, the stop
\* of the recorder and the result
UncaptionedScene(segs, k) ==
    IF segs[k].audioBuffer = NoBuffer THEN << >>
    ELSE << Event("onProgress: Encoding Scene", k, Len(segs), FALSE, << >>),
            Event("source.start", k, 0, FALSE, << >>) >>
         \o [ n \in 1..FramesFor(segs[k].audioBuffer) |->
                Event("frame", k, n - 1, segs[k].image = "ok", << >>) ]

UncaptionedRender(segs) ==
    << Event("onProgress: Pre-loading visuals...", 0, 0, FALSE, << >>),
       Event("mediaRecorder.start", 0, 0, FALSE, << >>) >>
    \o Flatten([ k \in 1..Len(segs) |-> UncaptionedScene(segs, k) ])
    \o << Event("mediaRecorder.stop", 0, 0, FALSE, << >>),
          Event("resolve", 0, 0, FALSE, << >>) >>

Uncaptioned(l) == [ k \in 1..Len(l) |-> [ l[k] EXCEPT !.captions = << >> ] ]

IsPrefix(s, t) == Len(s) <= Len(t) /\ \A k \in 1..Len(s) : s[k] = t[k]

\* C22: with showCaptions false no frame holds a caption word or a highlight;
\* with either value of showCaptions the clears, the image draws, the frames,
\* the audio starts and the progress reports are those the segments alone
\* determine, and a finished render has made all of them.
CaptionsOffChangesNothingElse ==
    /\ ~showCaptions => \A a \in Frames : log[a].captions = << >>
    /\ IsPrefix(Uncaptioned(log), UncaptionedRender(segments))
    /\ Finished => Uncaptioned(log) = UncaptionedRender(segments)

\* a finished render without captions of a scene that has a narration, a
\* layout, an image and several frames
CaptionsOffChangesNothingElseWitness ==
    /\ Finished
    /\ ~showCaptions
    /\ \E k \in 1..Len(segments) :
         /\ segments[k].narration # << >>
         /\ layoutCache[k] # NoLayout
         /\ Cardinality(FramesOf(k)) >= 2
         /\ \A a \in FramesOf(k) : log[a].image /\ log[a].captions = << >>

\* the layout of the narration of scene k with the geometry of the render
SceneLayout(k) ==
    calculateTextLayout(measure, segments[k].narration,
                        CaptionMaxWidth, CaptionStartY, CaptionFontSize)

\* the cache holds the layout of every scene that has a narration and nothing
\* for a scene whose narration is empty
LayoutsReady ==
    /\ Len(layoutCache) = Len(segments)
    /\ \A k \in 1..Len(segments) :
         layoutCache[k] = IF segments[k].narration # << >> THEN SceneLayout(k) ELSE NoLayout

FirstWords(l, n) == SubSeq(layout.lines[l].words, 1, n)

\* C24: the lines are those of the greedy rule: the words are those of the
\* text in order, no line is empty, a word that is not the first of its line
\* fitted after the words before it (their width + one space + its width <=
\* maxWidth), and the first word of every line after the first did not fit at
\* the end of the line before it.
GreedyBreaks ==
    Built =>
        /\ [ k \in 1..Len(LineWords) |-> LineWords[k].text ] = Split(text)
        /\ \A l \in 1..Len(layout.lines) :
             LET n == Len(layout.lines[l].words)
             IN  /\ n >= 1
                 /\ \A j \in 2..n :
                      WordsWidth(FirstWords(l, j - 1)) + measure.space
                          + layout.lines[l].words[j].width <= maxWidth
                 /\ l > 1 =>
                      WordsWidth(layout.lines[l - 1].words) + measure.space
                          + layout.lines[l].words[1].width > maxWidth

\* a line of two words followed by a line that starts with a word of the text
\* which did not fit
GreedyBreaksWitness ==
    /\ Built
    /\ \E l \in 2..Len(layout.lines) :
         /\ Len(layout.lines[l - 1].words) >= 2
         /\ layout.lines[l].words[1].text # << >>
         /\ layout.lines[l].words[1].width <= maxWidth

Refs(words) == { words[k].ref : k \in 1..Len(words) }

\* C25: flattenedWords is the concatenation in line order of the word lists of
\* the lines and its entries are the entries of the lines themselves, each a
\* different object with one position, width and pair of fractions; the word
\* that find returns from flattenedWords is therefore the one word of the
\* lines drawn as active.
FlattenedWordsAreLineWords ==
    Built =>
        /\ Spans = LineWords
        /\ Cardinality(Refs(Spans)) = Len(Spans)
        /\ progress # NotCalled =>
             LET found == FindActive(Spans, progress)
             IN  Highlighted = IF found = 0 THEN {} ELSE { found }

\* a word of the second line was found in flattenedWords and drawn as active
FlattenedWordsAreLineWordsWitness ==
    /\ Built
    /\ progress # NotCalled
    /\ Len(layout.lines) >= 2
    /\ \E k \in Highlighted :
         /\ k > Len(layout.lines[1].words)
         /\ drawn[k].text = Spans[k].text
         /\ Contains(Spans[k], progress)

----------------------------------------------------------------------------
(* components/Player.tsx: the geometry of the preview *)

PlayerWidth == 540                               \* 1080 / 2
PlayerHeight == 960                              \* 1920 / 2
PlayerMaxWidth == (PlayerWidth * 85) \div 100    \* w * 0.85
PlayerStartY == (PlayerHeight * 75) \div 100     \* h * 0.75
PlayerFontSize == (PlayerHeight * 3) \div 100    \* Math.floor(h * 0.03)

\* the widths measureText gives with the font of the preview
PlayerFont == [ letter |-> 20, space |-> 10, punct |-> 10 ]

\* calculateTextLayout(ctx, s.narration, w * 0.85, startY, fontSize) of the useMemo
PlayerLayout(t) ==
    calculateTextLayout(PlayerFont, t, PlayerMaxWidth, PlayerStartY, PlayerFontSize)

\* the words of a layout in reading order, each with its fractions
Timing(lay) ==
    [ k \in 1..Len(lay.flattenedWords) |->
        << lay.flattenedWords[k].text, lay.flattenedWords[k].startTime,
           lay.flattenedWords[k].endTime >> ]

\* C26: the sequence of (word, startFraction, endFraction) of a layout depends
\* on the text alone: whatever the text measurement and the line width the
\* text was laid out with, and whatever lines came out, the sequence is the one
\* of the layout the preview player makes of the same text with its own line
\* width, start position, font size and measurement; at every fraction the
\* preview and the render then find the word at the same index.
FractionsDependOnTextOnly ==
    Built =>
        /\ progress = NotCalled => Timing(PlayerLayout(text)) = Timing(layout)
        /\ progress # NotCalled =>
             FindActive(PlayerLayout(text).flattenedWords, progress)
                 = FindActive(Spans, progress)

\* a text of several words that the preview lays out on one line and the
\* call under test on several, drawn with its second word highlighted
FractionsDependOnTextOnlyWitness ==
    /\ Built
    /\ Len(Spans) >= 2
    /\ Len(layout.lines) >= 2
    /\ Len(PlayerLayout(text).lines) = 1
    /\ progress # NotCalled
    /\ Highlighted = { 2 }
    /\ FindActive(PlayerLayout(text).flattenedWords, progress) = 2

----------------------------------------------------------------------------
(* More properties of renderVideo *)

ActiveWords(a) == { k \in 1..Len(log[a].captions) : log[a].captions[k].isActive }

\* frames of scenes that have a layout, drawn with captions enabled
CaptionedFrames == { a \in Frames : showCaptions /\ layoutCache[log[a].scene] # NoLayout }

\* C27: with captions enabled, a frame of a scene that has a layout is drawn at
\* a fraction p with 0 <= p < 1 and highlights exactly one word, and within a
\* scene the index of the highlighted word never decreases from a frame to a
\* later one.
OneWordPerFrame ==
    /\ \A a \in CaptionedFrames :
         LET p == FrameProgress(log[a].frame, segments[log[a].scene].audioBuffer)
         IN  /\ FracLE(Zero, p) /\ FracLT(p, One)
             /\ Cardinality(ActiveWords(a)) = 1
             /\ log[a].captions = drawCaptions(TRUE, layoutCache[log[a].scene], p)
    /\ \A a \in CaptionedFrames : \A b \in CaptionedFrames :
         (a < b /\ log[a].scene = log[b].scene) =>
             \A j \in ActiveWords(a) : \A k \in ActiveWords(b) : j <= k

\* a scene of three frames has highlighted its first word and then its second
OneWordPerFrameWitness ==
    \E a \in CaptionedFrames : \E b \in CaptionedFrames :
        /\ a < b
        /\ log[a].scene = log[b].scene
        /\ ActiveWords(a) = { 1 }
        /\ ActiveWords(b) = { 2 }
        /\ log[b].frame = 2

----------------------------------------------------------------------------
(* App.tsx: the handlers as steps *)

MaxAppScenes == 4      \* longest enumerated project, one more than the chains
MaxEdits == 1          \* number of handleUpdateScene calls followed

notApp == << measure, supported, ctxOk, layoutVars, renderVars >>

\* ---- lines 111-150, up to `await Promise.all(...)`: the three processNext
\* calls of the map run one after the other, each up to its own await
StartGeneration ==
    /\ gen = "idle"
    /\ step = "SCRIPT"
    /\ step' = "GENERATION"
    /\ snapshot' = project
    /\ LET r == StartWorkersFrom(1, project, workers, << >>)
       IN  /\ queue' = r.queue
           /\ workers' = r.workers
           /\ taken' = r.taken
    /\ gen' = "workers"
    /\ UNCHANGED << project, finalSegments, completed, renderCalls, rendered, edits, pushed, notApp >>

\* generateVoiceForSegment of chain w resolves
GenerateVoiceResolves(w) ==
    /\ workers[w].pc = "await"
    /\ workers[w].voice = "pending"
    /\ workers' = [ workers EXCEPT ![w].voice = "generated" ]
    /\ UNCHANGED << step, project, snapshot, queue, finalSegments, completed, gen,
                    renderCalls, rendered, taken, edits, pushed, notApp >>

\* generateImageForSegment of chain w resolves
GenerateImageResolves(w) ==
    /\ workers[w].pc = "await"
    /\ workers[w].image = "pending"
    /\ workers' = [ workers EXCEPT ![w].image = "generated" ]
    /\ UNCHANGED << step, project, snapshot, queue, finalSegments, completed, gen,
                    renderCalls, rendered, taken, edits, pushed, notApp >>

\* a request of chain w rejects: the Promise.all of the chain rejects, the
\* Promise.all of line 152 rejects with it, and the first time this happens
\* the catch of lines 172-176 runs
RequestRejects(w) ==
    /\ workers[w].pc = "await"
    /\ workers[w].voice = "pending" \/ workers[w].image = "pending"
    /\ workers' = [ workers EXCEPT ![w].pc = "rejected" ]
    /\ IF gen = "workers"
       THEN gen' = "caught" /\ step' = "SCRIPT"
       ELSE UNCHANGED << gen, step >>
    /\ UNCHANGED << project, snapshot, queue, finalSegments, completed,
                    renderCalls, rendered, taken, edits, pushed, notApp >>

\* ---- lines 139-150: both results of chain w are in; count, push, processNext
WorkerContinues(w) ==
    /\ workers[w].pc = "await"
    /\ workers[w].voice \in { "cached", "generated" }
    /\ workers[w].image \in { "cached", "generated" }
    /\ completed' = completed + 1
    /\ finalSegments' = Append(finalSegments, FinishedSegment(workers[w]))
    /\ LET r == processNext(queue)
       IN  /\ queue' = r.queue
           /\ workers' = [ workers EXCEPT ![w] = r.worker ]
           /\ taken' = taken \o r.took
    /\ pushed' = Append(pushed, workers[w].seg.id)
    /\ UNCHANGED << step, project, snapshot, gen, renderCalls, rendered, edits, notApp >>

\* ---- lines 152-163: every chain has returned; sort (in place), setProject,
\* renderVideo
CallRenderVideo ==
    /\ gen = "workers"
    /\ \A w \in Workers : workers[w].pc = "done"
    /\ LET sorted == SortByIndex(finalSegments, snapshot)
       IN  /\ finalSegments' = sorted
           /\ project' = sorted
           /\ rendered' = sorted
    /\ renderCalls' = renderCalls + 1
    /\ gen' = "render"
    /\ UNCHANGED << step, snapshot, queue, completed, workers, taken,
                    edits, pushed, notApp >>

\* ---- lines 166-171: renderVideo resolved
RenderResolves ==
    /\ gen = "render"
    /\ step' = "RESULT"
    /\ gen' = "done"
    /\ UNCHANGED << project, snapshot, queue, finalSegments, completed, workers,
                    renderCalls, rendered, taken, edits, pushed, notApp >>

\* ---- lines 172-176: renderVideo rejected
RenderRejects ==
    /\ gen = "render"
    /\ step' = "SCRIPT"
    /\ gen' = "caught"
    /\ UNCHANGED << project, snapshot, queue, finalSegments, completed, workers,
                    renderCalls, rendered, taken, edits, pushed, notApp >>

\* ---- lines 179-196: handleUpdateScene(id, narration, visual), called by the
\* timer of SceneCard 500 ms after the last keystroke (the timer is not
\* cleared when the card goes away, so the call may come during a generation)
UpdateScene(id, narration, visual) ==
    /\ edits < MaxEdits
    /\ edits' = edits + 1
    /\ project' = [ k \in 1..Len(project) |->
                      IF project[k].id # id THEN project[k]
                      ELSE UpdatedSegment(project[k], narration, visual) ]
    /\ UNCHANGED << step, snapshot, queue, finalSegments, completed, workers, gen,
                    renderCalls, rendered, taken, pushed, notApp >>

OldNarration == << "a" >>
NewNarration == << "b" >>
OldVisual == << "x" >>
NewVisual == << "y" >>

\* a segment of the script, as generateScript or handleAddScene left it
\* (no asset) or with the audio and the image an earlier generation, whose
\* render failed, stored for it
ScriptSegment(id, hasAssets) ==
    [ id |-> id, narration |-> OldNarration, visualDescription |-> OldVisual,
      audioUrl |-> IF hasAssets THEN VoiceOf(OldNarration).audioUrl ELSE Undefined,
      audioDuration |-> IF hasAssets THEN VoiceOf(OldNarration).duration ELSE Undefined,
      audioBuffer |-> IF hasAssets THEN VoiceOf(OldNarration).buffer ELSE Undefined,
      imageUrl |-> IF hasAssets THEN ImageOf(OldVisual) ELSE Undefined ]

AppProjects ==
    UNION { { [ k \in 1..n |-> ScriptSegment(k, a[k]) ] : a \in [ 1..n -> BOOLEAN ] } :
            n \in 0..MaxAppScenes }

AppInit ==
    /\ measure = WideFont
    /\ supported = MimeTypes
    /\ ctxOk = TRUE
    /\ segments = << >>
    /\ showCaptions = TRUE
    /\ format = "mp4"
    /\ IdleLayout
    /\ StartOfRender
    /\ project \in AppProjects
    /\ AppIdle

AppNext ==
    \/ StartGeneration
    \/ \E w \in Workers : GenerateVoiceResolves(w)
    \/ \E w \in Workers : GenerateImageResolves(w)
    \/ \E w \in Workers : RequestRejects(w)
    \/ \E w \in Workers : WorkerContinues(w)
    \/ CallRenderVideo
    \/ RenderResolves
    \/ RenderRejects
    \/ \E id \in 1..Len(project) :
         \E narration \in { OldNarration, NewNarration } :
            \E visual \in { OldVisual, NewVisual } : UpdateScene(id, narration, visual)

AppSpec == AppInit /\ [][AppNext]_vars

----------------------------------------------------------------------------
(* Properties of handleStartGeneration and handleUpdateScene (AppSpec) *)

Ids(list) == [ k \in 1..Len(list) |-> list[k].id ]

NoDuplicate(s) == \A a \in 1..Len(s) : \A b \in 1..Len(s) : a # b => s[a] # s[b]

\* the chains that hold a segment whose assets are being generated
InFlight == { w \in Workers : workers[w].pc = "await" }

AllReturned == gen # "idle" /\ \A w \in Workers : workers[w].pc = "done"

\* C28: the chains take the segments of the queue one by one in order, no
\* segment twice; at most 3 segments are in generation at a time, each held by
\* one chain; and when every chain has returned, every segment has been taken
\* and pushed exactly once, whatever the order in which the requests completed.
SharedQueueWorkers ==
    /\ NoDuplicate(taken)
    /\ IsPrefix(taken, Ids(snapshot))
    /\ Cardinality(InFlight) <= 3
    /\ \A v \in InFlight : \A w \in InFlight : v # w => workers[v].seg.id # workers[w].seg.id
    /\ NoDuplicate(pushed)
    /\ Len(pushed) = Len(finalSegments)
    /\ \A k \in 1..Len(pushed) :
         /\ \E j \in 1..Len(taken) : taken[j] = pushed[k]
         /\ \E j \in 1..Len(finalSegments) : finalSegments[j].id = pushed[k]
    /\ Len(taken) = Len(finalSegments) + Cardinality(InFlight)
                      + Cardinality({ w \in Workers : workers[w].pc = "rejected" })
    /\ AllReturned =>
         /\ taken = Ids(snapshot)
         /\ Len(finalSegments) = Len(snapshot)
         /\ completed = Len(snapshot)

\* more segments than chains, all processed, completed in another order than
\* that of the queue
SharedQueueWorkersWitness ==
    /\ AllReturned
    /\ Len(snapshot) > 3
    /\ taken = Ids(snapshot)
    /\ pushed # Ids(snapshot)

AssetsComplete(s) ==
    /\ s.audioUrl # Undefined
    /\ s.audioBuffer # Undefined
    /\ s.audioDuration # Undefined
    /\ s.imageUrl # Undefined

SomeRejected == \E w \in Workers : workers[w].pc = "rejected"

AudioOfNarration(s) ==
    /\ s.audioUrl # Undefined => s.audioUrl = VoiceOf(s.narration).audioUrl
    /\ s.audioBuffer # Undefined => s.audioBuffer = VoiceOf(s.narration).buffer
    /\ s.imageUrl # Undefined => s.imageUrl = ImageOf(s.visualDescription)

\* no list and no chain holds a segment with assets made for another text
NoStaleAsset ==
    /\ \A k \in 1..Len(project) : AudioOfNarration(project[k])
    /\ \A k \in 1..Len(queue) : AudioOfNarration(queue[k])
    /\ \A k \in 1..Len(finalSegments) : AudioOfNarration(finalSegments[k])
    /\ \A k \in 1..Len(rendered) : AudioOfNarration(rendered[k])
    /\ \A w \in InFlight : AudioOfNarration(workers[w].seg)

\* the step is a call of handleUpdateScene
IsUpdate == edits' = edits + 1

UpdateEffect ==
    /\ Len(project') = Len(project)
    /\ \E id \in 1..Len(project) : \A k \in 1..Len(project) :
         LET s == project[k]
             u == project'[k]
         IN  /\ s.id # id => u = s
             /\ u.id = s.id
             /\ s.narration # u.narration =>
                    u.audioUrl = Undefined /\ u.audioBuffer = Undefined
             /\ s.narration = u.narration =>
                    u.audioUrl = s.audioUrl /\ u.audioBuffer = s.audioBuffer
             /\ u.imageUrl = IF s.visualDescription # u.visualDescription
                             THEN Undefined ELSE s.imageUrl
             /\ (s.narration = u.narration /\ s.visualDescription = u.visualDescription)
                    => u = s

\* C30: a call of handleUpdateScene that changes the narration of a segment
\* clears its audio URL and audio buffer, one that changes the visual
\* description clears its image URL, one that changes neither keeps the
\* segment as it is, and every other segment is unchanged; a generation
\* therefore never reuses, renders or stores audio made for another narration.
UpdateClearsStaleAssets ==
    /\ []NoStaleAsset
    /\ [][IsUpdate => UpdateEffect]_vars

\* a generation that made new audio for a segment whose narration was changed
\* and reused the audio of a segment that was not touched
UpdateClearsStaleAssetsWitness ==
    /\ edits = 1
    /\ renderCalls = 1
    /\ \E k \in 1..Len(rendered) : \E j \in 1..Len(rendered) :
         /\ snapshot[k].narration = NewNarration
         /\ snapshot[k].audioUrl = Undefined
         /\ snapshot[k].audioDuration = VoiceOf(OldNarration).duration
         /\ rendered[k].audioBuffer = VoiceOf(NewNarration).buffer
         /\ snapshot[j].audioBuffer = VoiceOf(OldNarration).buffer
         /\ rendered[j].audioBuffer = VoiceOf(OldNarration).buffer

====
